---- MODULE Spec2Model ----
(***************************************************************************)
(* Model of the longevity backend: the POST /ask handler of main.py        *)
(* (retrieval + answer composition) and the ingestion run of               *)
(* index_docs.py (batch embedding + upsert), with its chunker              *)
(* split_text_into_chunks.                                                 *)
(*                                                                         *)
(* Conventions.  A Python Optional is a sequence of length <= 1: None is   *)
(* <<>>, a value v is <<v>>.  A text is a sequence of tokens, so the empty *)
(* string is <<>> and concatenation is \o.                                 *)
(***************************************************************************)
EXTENDS Integers, Sequences, FiniteSets, TLC

VARIABLES
    \* ---- POST /ask (main.py) ----
    pc,                 \* position of the handler
    request,            \* AskRequest: question, user_data
    calls,              \* external calls issued so far, in order
    query_args,         \* keyword arguments of index.query, once issued
    query_results,      \* matches returned by index.query
    context_documents,  \* texts extracted from the matches
    context,            \* "\n\n".join(context_documents)
    user_parts,         \* rendered profile lines
    user_message,       \* user turn handed to the chat provider
    raised,             \* Optional: the exception caught by the handler
    response,           \* Optional: the HTTP outcome
    \* ---- ingestion run (index_docs.py main) ----
    ipc,                \* position of main()
    corpus,             \* Optional: the documents of data/ (None: no data/)
    indexes,            \* indexes existing in the vector-store service
    create_calls,       \* create_index calls issued, over all runs
    index_calls,        \* service calls of ensure_index_exists in this run
    all_chunks,
    loop_i,             \* loop variable i of range(0, len(all_chunks), BATCH_SIZE)
    batch_chunks,
    embeddings,
    vectors_batch,
    total_uploaded,
    chunk_id_counter,
    store,              \* records of the index: id -> [values, metadata]
    store_before,       \* the store as the current run found it
    rerun,              \* TRUE in the second run over the same documents
    log,                \* provider calls of the current run, in order
    reported,           \* Optional: the count printed by the final report
    \* ---- split_text_into_chunks (index_docs.py) ----
    text_in,            \* the text handed to split_text_into_chunks
    chunks_out          \* Optional: the chunks it returned

askvars == <<pc, request, calls, query_args, query_results, context_documents,
             context, user_parts, user_message, raised, response>>

ingestvars == <<ipc, corpus, indexes, create_calls, index_calls, all_chunks, loop_i,
                batch_chunks, embeddings, vectors_batch, total_uploaded,
                chunk_id_counter, store, store_before, rerun, log, reported>>

chunkvars == <<text_in, chunks_out>>

vars == <<askvars, ingestvars, chunkvars>>

None == <<>>
Some(v) == <<v>>

(***************************************************************************)
(* Request bodies.  Field(None, ge=0, le=150) etc: the values below are    *)
(* all valid for the pydantic models.                                      *)
(***************************************************************************)
Ages == {None, Some(0), Some(30)}
Weights == {None, Some(0), Some(75)}
Heights == {None, Some(175)}
Genders == {None, Some(""), Some("maschio")}
ActivityLevels == {None, Some("moderato")}
Goals == {None, Some("perdita peso")}
DietaryPreferences == {None, Some("vegano")}

UserData ==
    [age : Ages, weight : Weights, height : Heights, gender : Genders,
     activity_level : ActivityLevels, goal : Goals,
     dietary_preferences : DietaryPreferences]

Question == <<"Quali sono i benefici degli omega-3?">>

AskRequest ==
    [question : {Question}, user_data : {None} \cup {Some(u) : u \in UserData}]

(***************************************************************************)
(* The vector store as seen by one query: records with their similarity    *)
(* score to the query vector.  metadata is an Optional dictionary.         *)
(***************************************************************************)
EmptyDict == [k \in {} |-> <<>>]

StoredMatches ==
    { [id |-> "m1", score |-> 90, metadata |-> None],
      [id |-> "m2", score |-> 90, metadata |-> Some([text |-> <<"t2">>])],
      [id |-> "m3", score |-> 80, metadata |-> Some([content |-> <<"c3">>])],
      [id |-> "m4", score |-> 80,
       metadata |-> Some([text |-> <<"t4">>, content |-> <<"c4">>])],
      [id |-> "m5", score |-> 70, metadata |-> Some(EmptyDict)],
      [id |-> "m6", score |-> 70, metadata |-> Some([source |-> <<"s6">>])],
      [id |-> "m7", score |-> 60, metadata |-> Some([text |-> <<>>])],
      [id |-> "m8", score |-> 60, metadata |-> None] }

\* index.query(top_k=k): at most k distinct matches, by non-increasing score.
QueryAnswers(k) ==
    UNION { { ms \in [1..n -> StoredMatches] :
                /\ \A i, j \in 1..n : i < j => ms[i].id # ms[j].id
                /\ \A i, j \in 1..n : i < j => ms[i].score >= ms[j].score }
            : n \in 0..k }

(***************************************************************************)
(* Errors.  status_code is the Optional attribute the handler looks for    *)
(* with hasattr(e, 'status_code').                                         *)
(***************************************************************************)
ProviderErrors(origin) ==
    { [origin |-> origin, type |-> "Exception", status_code |-> None] } \cup
    { [origin |-> origin, type |-> "APIStatusError", status_code |-> Some(s)]
        : s \in {404, 429, 500} }

TypeError == [origin |-> "handler", type |-> "TypeError", status_code |-> None]

ValidationError ==
    [origin |-> "handler", type |-> "ValidationError", status_code |-> None]

HTTPException(s) ==
    [origin |-> "handler", type |-> "HTTPException", status_code |-> Some(s)]

\* A handler that maps every error to 500.
HandleExceptionAlways500(e) ==
    [status |-> 500, body |-> <<"Errore interno del server">>]

\* main.py 203-215: the except clause of ask_question.
HandleException(e) ==
    IF e.status_code # None
    THEN [status |-> e.status_code[1], body |-> <<"Errore API OpenAI">>]
    ELSE [status |-> 500, body |-> <<"Errore interno del server">>]

top_k == 3

\* "sep".join(texts)
RECURSIVE Join(_, _)
Join(sep, texts) ==
    IF texts = <<>> THEN <<>>
    ELSE IF Len(texts) = 1 THEN texts[1]
    ELSE texts[1] \o sep \o Join(sep, Tail(texts))

\* Python truthiness of a dictionary-or-None.
TruthyDict(md) == md # None /\ DOMAIN md[1] # {}

\* The loop body with a second if in place of the elif.
ExtractStepBoth(docs, match) ==
    IF match.metadata = None
    THEN [exc |-> Some(TypeError), docs |-> docs]
    ELSE LET d1 == IF "text" \in DOMAIN match.metadata[1]
                   THEN Append(docs, match.metadata[1].text) ELSE docs
             d2 == IF "content" \in DOMAIN match.metadata[1]
                   THEN Append(d1, match.metadata[1].content) ELSE d1
         IN  [exc |-> None, docs |-> d2]

\* main.py 105-108: one iteration of the loop over the matches.
ExtractStep(docs, match) ==
    IF TruthyDict(match.metadata) /\ "text" \in DOMAIN match.metadata[1]
    THEN [exc |-> None, docs |-> Append(docs, match.metadata[1].text)]
    ELSE IF match.metadata = None
    THEN [exc |-> Some(TypeError), docs |-> docs]   \* 'content' in None
    ELSE IF "content" \in DOMAIN match.metadata[1]
    THEN [exc |-> None, docs |-> Append(docs, match.metadata[1].content)]
    ELSE [exc |-> None, docs |-> docs]

\* main.py 103-108: the loop; an exception leaves it at once.
RECURSIVE ExtractLoop(_, _, _)
ExtractLoop(matches, i, docs) ==
    IF i > Len(matches) THEN [exc |-> None, docs |-> docs]
    ELSE LET r == ExtractStep(docs, matches[i])
         IN  IF r.exc # None THEN r ELSE ExtractLoop(matches, i + 1, r.docs)

\* Python truthiness of Optional[int], Optional[float] and Optional[str].
TruthyNum(o) == o # None /\ o[1] # 0
TruthyStr(o) == o # None /\ o[1] # ""

Part(cond, label, o) == IF cond THEN << <<label, o[1]>> >> ELSE <<>>

\* main.py 122-136
RenderUserParts(u) ==
    Part(TruthyNum(u.age), "Eta", u.age)
    \o Part(TruthyNum(u.weight), "Peso", u.weight)
    \o Part(TruthyNum(u.height), "Altezza", u.height)
    \o Part(TruthyStr(u.gender), "Genere", u.gender)
    \o Part(TruthyStr(u.activity_level), "Livello di attivita", u.activity_level)
    \o Part(TruthyStr(u.goal), "Obiettivo", u.goal)
    \o Part(TruthyStr(u.dietary_preferences), "Preferenze alimentari/allergie",
            u.dietary_preferences)

\* main.py 120-139: the profile block; a line is one token.
UserContext(parts) ==
    IF parts # <<>>
    THEN <<"\n\nDati biometrici dell'utente:\n">> \o Join(<<"\n">>, [i \in 1..Len(parts) |-> <<parts[i]>>])
    ELSE <<>>

\* main.py 179-186
UserMessage(ctx, parts, question) ==
    <<"Contesto scientifico (fonte: database Pinecone):\n\n">> \o ctx \o <<"\n">>
    \o UserContext(parts) \o <<"\n\nDomanda dell'utente: ">> \o question
    \o <<"\n\nFornisci una risposta dettagliata">>

\* completion.choices[0].message.content is Optional[str]
Contents == {None, Some(<<"answer">>)}

AskInit ==
    /\ pc = "index"
    /\ request \in AskRequest
    /\ calls = <<>>
    /\ query_args = None
    /\ query_results = <<>>
    /\ context_documents = <<>>
    /\ context = <<>>
    /\ user_parts = <<>>
    /\ user_message = <<>>
    /\ raised = None
    /\ response = None

\* An exception inside the try block ends the request in the except clause.
Fail(e) ==
    /\ raised' = Some(e)
    /\ response' = Some(HandleException(e))
    /\ pc' = "done"

\* main.py 84
OpenIndex ==
    /\ pc = "index"
    /\ calls' = Append(calls, "pc.Index")
    /\ \/ pc' = "embed" /\ UNCHANGED <<raised, response>>
       \/ \E e \in ProviderErrors("store") : Fail(e)
    /\ UNCHANGED <<request, query_args, query_results, context_documents,
                   context, user_parts, user_message>>
    /\ UNCHANGED <<ingestvars, chunkvars>>

\* main.py 88-93
EmbedQuestion ==
    /\ pc = "embed"
    /\ calls' = Append(calls, "embeddings.create")
    /\ \/ pc' = "query" /\ UNCHANGED <<raised, response>>
       \/ \E e \in ProviderErrors("embedding") : Fail(e)
    /\ UNCHANGED <<request, query_args, query_results, context_documents,
                   context, user_parts, user_message>>
    /\ UNCHANGED <<ingestvars, chunkvars>>

\* main.py 96-100
QueryIndex ==
    /\ pc = "query"
    /\ calls' = Append(calls, "index.query")
    /\ query_args' = Some([top_k |-> top_k, include_metadata |-> TRUE])
    /\ \/ /\ \E ms \in QueryAnswers(top_k) : query_results' = ms
          /\ pc' = "extract"
          /\ UNCHANGED <<raised, response>>
       \/ /\ \E e \in ProviderErrors("store") : Fail(e)
          /\ UNCHANGED query_results
    /\ UNCHANGED <<request, context_documents, context, user_parts, user_message>>
    /\ UNCHANGED <<ingestvars, chunkvars>>

\* main.py 103-117
ExtractContext ==
    /\ pc = "extract"
    /\ LET r == ExtractLoop(query_results, 1, <<>>)
       IN  IF r.exc # None
           THEN /\ Fail(r.exc[1])
                /\ context_documents' = r.docs
                /\ UNCHANGED context
           ELSE /\ context_documents' = r.docs
                /\ IF r.docs = <<>>
                   THEN Fail(HTTPException(404)) /\ UNCHANGED context
                   ELSE /\ context' = Join(<<"\n\n">>, r.docs)
                        /\ pc' = "compose"
                        /\ UNCHANGED <<raised, response>>
    /\ UNCHANGED <<request, calls, query_args, query_results, user_parts,
                   user_message>>
    /\ UNCHANGED <<ingestvars, chunkvars>>

\* main.py 120-186
BuildPrompt ==
    /\ pc = "compose"
    /\ LET parts == IF request.user_data # None
                    THEN RenderUserParts(request.user_data[1])
                    ELSE <<>>
       IN  /\ user_parts' = parts
           /\ user_message' = UserMessage(context, parts, request.question)
    /\ pc' = "chat"
    /\ UNCHANGED <<request, calls, query_args, query_results, context_documents,
                   context, raised, response>>
    /\ UNCHANGED <<ingestvars, chunkvars>>

\* main.py 189-201
ChatCompletion ==
    /\ pc = "chat"
    /\ calls' = Append(calls, "chat.completions.create")
    /\ \/ \E c \in Contents :
            IF c = None
            THEN Fail(ValidationError)       \* AskResponse(answer=None)
            ELSE /\ response' = Some([status |-> 200, body |-> c[1]])
                 /\ pc' = "done"
                 /\ UNCHANGED raised
       \/ \E e \in ProviderErrors("chat") : Fail(e)
    /\ UNCHANGED <<request, query_args, query_results, context_documents,
                   context, user_parts, user_message>>
    /\ UNCHANGED <<ingestvars, chunkvars>>

AskNext ==
    \/ OpenIndex
    \/ EmbedQuestion
    \/ QueryIndex
    \/ ExtractContext
    \/ BuildPrompt
    \/ ChatCompletion

(***************************************************************************)
(* Ingestion: index_docs.py                                                *)
(***************************************************************************)
BATCH_SIZE == 50
EMBEDDING_DIMENSION == 1024
PINECONE_INDEX_NAME == "longevity"

\* Largest number of chunks of a corpus of the model.
MaxChunks == 101

Min(a, b) == IF a < b THEN a ELSE b

\* A document of data/: blank documents are ignored by load_documents; chunks
\* is what split_text_into_chunks makes of its text (distinct texts).
Doc(d, n, blank) ==
    [path |-> d, blank |-> blank, chunks |-> [j \in 1..n |-> <<"chunk", d, j>>]]

Corpora ==
    { None,
      Some(<<>>),
      Some(<<Doc(1, 1, TRUE)>>),
      Some(<<Doc(1, 1, FALSE)>>),
      Some(<<Doc(1, BATCH_SIZE, FALSE), Doc(2, 1, TRUE), Doc(3, 1, FALSE)>>),
      Some(<<Doc(1, BATCH_SIZE, FALSE), Doc(2, MaxChunks - BATCH_SIZE, FALSE)>>) }

OurIndex ==
    [name |-> PINECONE_INDEX_NAME, dimension |-> EMBEDDING_DIMENSION,
     metric |-> "cosine"]

OtherIndex == [name |-> "other", dimension |-> 1536, metric |-> "dotproduct"]

EmptyStore == [id \in {} |-> <<>>]

\* f"id-{n}"
MakeId(n) == <<"id-", n>>

\* The provider's vector for a text.
Embedding(text) == <<"embedding", text>>

\* How many vectors the provider may return for n texts.
ReturnedCounts(n) == {n, n + 1} \cup (IF n > 0 THEN {n - 1} ELSE {})

RECURSIVE Flatten(_)
Flatten(lists) ==
    IF lists = <<>> THEN <<>> ELSE Head(lists) \o Flatten(Tail(lists))

\* index_docs.py 59-101
load_documents(docs) == SelectSeq(docs, LAMBDA d : ~d.blank)

\* index_docs.py 231-237: for chunk_text, embedding in zip(...)
RECURSIVE ZipLoop(_, _, _, _, _)
ZipLoop(chunks, embs, j, counter, acc) ==
    IF j > Len(chunks) \/ j > Len(embs)
    THEN [vectors |-> acc, counter |-> counter]
    ELSE ZipLoop(chunks, embs, j + 1, counter + 1,
                 Append(acc, [id |-> MakeId(counter), values |-> embs[j],
                              metadata |-> [text |-> chunks[j]]]))

\* index.upsert(vectors=...): same id overwrites.
Upserted(st, vectors) ==
    LET ids == {vectors[j].id : j \in 1..Len(vectors)}
        Last(id) == CHOOSE j \in 1..Len(vectors) :
                       /\ vectors[j].id = id
                       /\ \A k \in 1..Len(vectors) : vectors[k].id = id => k <= j
    IN  [id \in DOMAIN st \cup ids |->
            IF id \in ids
            THEN [values |-> vectors[Last(id)].values,
                  metadata |-> vectors[Last(id)].metadata]
            ELSE st[id]]

IngestInit ==
    /\ ipc = "start"
    /\ corpus \in Corpora
    /\ indexes \in {{}, {OtherIndex}, {OurIndex}}
    /\ create_calls = 0
    /\ index_calls = <<>>
    /\ all_chunks = <<>>
    /\ loop_i = 0
    /\ batch_chunks = <<>>
    /\ embeddings = <<>>
    /\ vectors_batch = <<>>
    /\ total_uploaded = 0
    /\ chunk_id_counter = 1
    /\ store = EmptyStore
    /\ store_before = EmptyStore
    /\ rerun = FALSE
    /\ log = <<>>
    /\ reported = None

\* pc.list_indexes() as ensure_index_exists sees it return.
Listing ==
    [op |-> "list_indexes", ok |-> TRUE, names |-> {x.name : x \in indexes}]

\* pc.create_index(name=..., dimension=..., metric="cosine")
CreateIndex(ok) == [op |-> "create_index", ok |-> ok, index |-> OurIndex]

\* An ensure_index_exists that calls create_index whatever is listed: the
\* service refuses a second index of the name.
ensure_index_always_creates ==
    /\ ipc = "start"
    /\ \/ /\ index_calls' = <<[op |-> "list_indexes", ok |-> FALSE]>>
          /\ ipc' = "exit1"
          /\ UNCHANGED <<indexes, create_calls>>
       \/ /\ create_calls' = create_calls + 1
          /\ \/ /\ PINECONE_INDEX_NAME \notin Listing.names
                /\ indexes' = indexes \cup {OurIndex}
                /\ index_calls' = <<Listing, CreateIndex(TRUE)>>
                /\ ipc' = "load"
             \/ /\ UNCHANGED indexes
                /\ index_calls' = <<Listing, CreateIndex(FALSE)>>
                /\ ipc' = "exit1"
    /\ UNCHANGED <<corpus, all_chunks, loop_i, batch_chunks, embeddings, vectors_batch,
                   total_uploaded, chunk_id_counter, store, store_before, rerun,
                   log, reported>>
    /\ UNCHANGED <<askvars, chunkvars>>

\* index_docs.py 146-161, called at 186; a call of the service that raises
\* reaches the outer except clause (256-258).
ensure_index_exists ==
    /\ ipc = "start"
    /\ \/ /\ index_calls' = <<[op |-> "list_indexes", ok |-> FALSE]>>
          /\ ipc' = "exit1"
          /\ UNCHANGED <<indexes, create_calls>>
       \/ IF PINECONE_INDEX_NAME \notin Listing.names
          THEN /\ create_calls' = create_calls + 1
               /\ \/ /\ indexes' = indexes \cup {OurIndex}
                     /\ index_calls' = <<Listing, CreateIndex(TRUE)>>
                     /\ ipc' = "load"
                  \/ /\ UNCHANGED indexes
                     /\ index_calls' = <<Listing, CreateIndex(FALSE)>>
                     /\ ipc' = "exit1"
          ELSE /\ index_calls' = <<Listing>>
               /\ ipc' = "load"
               /\ UNCHANGED <<indexes, create_calls>>
    /\ UNCHANGED <<corpus, all_chunks, loop_i, batch_chunks, embeddings, vectors_batch,
                   total_uploaded, chunk_id_counter, store, store_before, rerun,
                   log, reported>>
    /\ UNCHANGED <<askvars, chunkvars>>

\* index_docs.py 189-216: load, split, open the index, set the counters.
LoadAndSplit ==
    /\ ipc = "load"
    /\ IF corpus = None
       THEN /\ ipc' = "exit1"                      \* FileNotFoundError
            /\ UNCHANGED all_chunks
       ELSE LET documents == load_documents(corpus[1])
                chunks == Flatten([d \in 1..Len(documents) |-> documents[d].chunks])
            IN  IF documents = <<>>
                THEN ipc' = "exit0" /\ UNCHANGED all_chunks
                ELSE /\ all_chunks' = chunks
                     /\ ipc' = IF chunks = <<>> THEN "exit0" ELSE "embed"
    /\ loop_i' = 0
    /\ total_uploaded' = 0
    /\ chunk_id_counter' = 1
    /\ UNCHANGED <<corpus, indexes, create_calls, index_calls, batch_chunks,
                   embeddings, vectors_batch, store, store_before, rerun, log,
                   reported>>
    /\ UNCHANGED <<askvars, chunkvars>>

BatchNum == (loop_i \div BATCH_SIZE) + 1
TotalBatches == (Len(all_chunks) + BATCH_SIZE - 1) \div BATCH_SIZE

\* The for statement: the next batch, or the statement after the loop.
NextBatch ==
    /\ loop_i' = loop_i + BATCH_SIZE
    /\ ipc' = IF loop_i + BATCH_SIZE < Len(all_chunks) THEN "embed" ELSE "report"

\* A batch error that is not caught in the loop ends the run.
CatchBatchErrorAborts ==
    /\ ipc' = "exit1"
    /\ UNCHANGED loop_i

\* index_docs.py 245-247: except Exception ... continue
CatchBatchError == NextBatch

\* index_docs.py 219-227 and 125-143
CreateEmbeddings ==
    /\ ipc = "embed"
    /\ LET batch == SubSeq(all_chunks, loop_i + 1, Min(loop_i + BATCH_SIZE, Len(all_chunks)))
       IN  /\ batch_chunks' = batch
           /\ \/ \E n \in ReturnedCounts(Len(batch)) :
                    /\ embeddings' = [j \in 1..n |->
                                        IF j <= Len(batch) THEN Embedding(batch[j])
                                        ELSE Embedding(<<"extra">>)]
                    /\ log' = Append(log, [op |-> "embed", batch |-> BatchNum, ok |-> TRUE])
                    /\ ipc' = "build"
                    /\ UNCHANGED loop_i
              \/ /\ log' = Append(log, [op |-> "embed", batch |-> BatchNum, ok |-> FALSE])
                 /\ CatchBatchError
                 /\ UNCHANGED embeddings
    /\ UNCHANGED <<corpus, indexes, create_calls, index_calls, all_chunks,
                   vectors_batch, total_uploaded, chunk_id_counter, store,
                   store_before, rerun, reported>>
    /\ UNCHANGED <<askvars, chunkvars>>

\* index_docs.py 230-237
BuildVectors ==
    /\ ipc = "build"
    /\ LET r == ZipLoop(batch_chunks, embeddings, 1, chunk_id_counter, <<>>)
       IN  /\ vectors_batch' = r.vectors
           /\ chunk_id_counter' = r.counter
    /\ ipc' = "upsert"
    /\ UNCHANGED <<corpus, indexes, create_calls, index_calls, all_chunks,
                   loop_i, batch_chunks, embeddings, total_uploaded, store,
                   store_before, rerun, log, reported>>
    /\ UNCHANGED <<askvars, chunkvars>>

\* index_docs.py 240-243 and 164-175
UpsertBatch ==
    /\ ipc = "upsert"
    /\ \/ /\ store' = Upserted(store, vectors_batch)
          /\ total_uploaded' = total_uploaded + Len(vectors_batch)
          /\ log' = Append(log, [op |-> "upsert", batch |-> BatchNum, ok |-> TRUE,
                                  records |-> Len(vectors_batch)])
          /\ NextBatch
       \/ /\ log' = Append(log, [op |-> "upsert", batch |-> BatchNum, ok |-> FALSE,
                                  records |-> Len(vectors_batch)])
          /\ CatchBatchError
          /\ UNCHANGED <<store, total_uploaded>>
    /\ UNCHANGED <<corpus, indexes, create_calls, index_calls, all_chunks,
                   batch_chunks, embeddings, vectors_batch, chunk_id_counter,
                   store_before, rerun, reported>>
    /\ UNCHANGED <<askvars, chunkvars>>

\* A final report that prints the number of chunks discovered.
ReportDiscovered ==
    /\ ipc = "report"
    /\ reported' = Some(Len(all_chunks))
    /\ ipc' = "done"
    /\ UNCHANGED <<corpus, indexes, create_calls, index_calls, all_chunks,
                   loop_i, batch_chunks, embeddings, vectors_batch,
                   total_uploaded, chunk_id_counter, store, store_before, rerun,
                   log>>
    /\ UNCHANGED <<askvars, chunkvars>>

\* index_docs.py 250-251
Report ==
    /\ ipc = "report"
    /\ reported' = Some(total_uploaded)
    /\ ipc' = "done"
    /\ UNCHANGED <<corpus, indexes, create_calls, index_calls, all_chunks,
                   loop_i, batch_chunks, embeddings, vectors_batch,
                   total_uploaded, chunk_id_counter, store, store_before, rerun,
                   log>>
    /\ UNCHANGED <<askvars, chunkvars>>

\* The script is run once more over the same data/ and the same index.
RunAgain ==
    /\ ipc \in {"done", "exit0", "exit1"}
    /\ ~rerun
    /\ rerun' = TRUE
    /\ store_before' = store
    /\ ipc' = "start"
    /\ all_chunks' = <<>>
    /\ loop_i' = 0
    /\ batch_chunks' = <<>>
    /\ embeddings' = <<>>
    /\ vectors_batch' = <<>>
    /\ total_uploaded' = 0
    /\ chunk_id_counter' = 1
    /\ log' = <<>>
    /\ reported' = None
    /\ index_calls' = <<>>
    /\ UNCHANGED <<corpus, indexes, create_calls, store>>
    /\ UNCHANGED <<askvars, chunkvars>>

\* One run of the script.
RunNext ==
    \/ ensure_index_exists
    \/ LoadAndSplit
    \/ CreateEmbeddings
    \/ BuildVectors
    \/ UpsertBatch
    \/ Report

IngestNext ==
    \/ RunNext
    \/ RunAgain

(***************************************************************************)
(* Chunker: split_text_into_chunks of index_docs.py.  The function only    *)
(* configures RecursiveCharacterTextSplitter (langchain_text_splitters),   *)
(* whose code is not part of the repository's files: split_text,           *)
(* merge_splits, join_docs and split_text_with_regex below follow the      *)
(* chunker of the specification (section 4.1) as that splitter realises    *)
(* it, with keep_separator and strip_whitespace at their defaults (True).  *)
(*                                                                         *)
(* A text is given by its shape: pars paragraphs joined by outer, each of  *)
(* words words of word_len letters joined by inner, optionally followed by *)
(* one more outer.  A piece of the text is the range [lo, hi] of its       *)
(* character positions: the separator is kept at the start of the piece    *)
(* that follows it, so the pieces of a split are contiguous and joining    *)
(* neighbours with the empty separator is the range from the first to the  *)
(* last.                                                                   *)
(***************************************************************************)
CHUNK_SIZE == 1000
CHUNK_OVERLAP == 200

ParagraphBreak == <<"\n", "\n">>
LineBreak == <<"\n">>
SentenceEnd == <<".", " ">>
Space == <<" ">>
HardCut == <<>>

Separators == <<ParagraphBreak, LineBreak, SentenceEnd, Space, HardCut>>

\* Largest number of words of a paragraph, and of paragraphs of a text.
MaxWords == 2
MaxPars == 2

WordLens == {1, 600, CHUNK_SIZE - 1, CHUNK_SIZE, CHUNK_SIZE + 1}

Texts ==
    [word_len : WordLens, words : 1..MaxWords, inner : {Space, SentenceEnd},
     pars : 0..MaxPars, outer : {ParagraphBreak, LineBreak}, trailing : BOOLEAN]

ParLen(t) == t.words * t.word_len + (t.words - 1) * Len(t.inner)

\* len(text)
TextLen(t) ==
    IF t.pars = 0 THEN 0
    ELSE t.pars * ParLen(t) + (t.pars - 1) * Len(t.outer)
         + (IF t.trailing THEN Len(t.outer) ELSE 0)

\* text[p - 1]
CharAt(t, p) ==
    LET q == (p - 1) % (ParLen(t) + Len(t.outer))
        r == q % (t.word_len + Len(t.inner))
    IN  IF q >= ParLen(t) THEN t.outer[q - ParLen(t) + 1]
        ELSE IF r < t.word_len THEN "a"
        ELSE t.inner[r - t.word_len + 1]

Piece(lo, hi) == [lo |-> lo, hi |-> hi]
PieceLen(s) == s.hi - s.lo + 1

\* The separator occurs in text[lo..hi] at position p.
OccursAt(t, sep, p, hi) ==
    /\ p + Len(sep) - 1 <= hi
    /\ \A k \in 1..Len(sep) : CharAt(t, p + k - 1) = sep[k]

\* re.search(separator, text)
Found(t, sep, lo, hi) == \E p \in lo..hi : OccursAt(t, sep, p, hi)

\* The matches re.split takes: leftmost first, not overlapping.  A separator
\* of the list has at most two characters, so in a run of occurrences at
\* consecutive positions every Len(sep)-th one is taken.
MatchStarts(t, sep, lo, hi) ==
    LET occ == {p \in lo..hi : OccursAt(t, sep, p, hi)}
        RunStart(p) == CHOOSE q \in lo..p :
                          /\ \A k \in q..p : k \in occ
                          /\ q = lo \/ (q - 1) \notin occ
    IN  IF Len(sep) = 1 THEN occ
        ELSE {p \in occ : (p - RunStart(p)) % Len(sep) = 0}

SortedSeq(S) ==
    [k \in 1..Cardinality(S) |-> CHOOSE p \in S : Cardinality({q \in S : q < p}) = k - 1]

\* _split_text_with_regex(text, separator, keep_separator=True): the pieces,
\* each match at the start of the piece after it, empty pieces dropped.
split_text_with_regex(t, sep, lo, hi) ==
    IF sep = <<>>
    THEN [k \in 1..(hi - lo + 1) |-> Piece(lo + k - 1, lo + k - 1)]
    ELSE LET m == SortedSeq(MatchStarts(t, sep, lo, hi))
             n == Len(m)
             all == [k \in 1..(n + 1) |->
                        Piece(IF k = 1 THEN lo ELSE m[k - 1],
                              IF k = n + 1 THEN hi ELSE m[k] - 1)]
         IN  SelectSeq(all, LAMBDA s : PieceLen(s) > 0)

Whitespace == {" ", "\n"}

\* _join_docs with the empty separator: the joined text, stripped of leading
\* and trailing whitespace; None when nothing is left.
join_docs(t, cur) ==
    LET lo == cur[1].lo
        hi == cur[Len(cur)].hi
        Blank(a, b) == \A p \in a..b : CharAt(t, p) \in Whitespace
    IN  IF Blank(lo, hi) THEN None
        ELSE LET lead == CHOOSE k \in 0..(hi - lo) :
                             ~Blank(lo + k, lo + k) /\ Blank(lo, lo + k - 1)
                 trail == CHOOSE k \in 0..(hi - lo) :
                              ~Blank(hi - k, hi - k) /\ Blank(hi - k + 1, hi)
             IN  Some(Piece(lo + lead, hi - trail))

\* _merge_splits, the while loop: how many pieces leave current_doc.  After(j)
\* is total once j pieces have left; it falls as j grows, so the loop stops
\* at the one j that stays while j - 1 goes.
Popped(c, cur, total, len) ==
    LET After(j) == IF j = Len(cur) THEN 0 ELSE total - (cur[j + 1].lo - cur[1].lo)
        Goes(j) == \/ After(j) > c.chunk_overlap
                   \/ After(j) + len > c.chunk_size /\ After(j) > 0
    IN  CHOOSE j \in 0..Len(cur) : ~Goes(j) /\ (j = 0 \/ Goes(j - 1))

\* _merge_splits, the loop body for the piece d.
MergeBody(t, c, d, acc) ==
    LET len == PieceLen(d)
    IN  IF acc.total + len > c.chunk_size /\ Len(acc.cur) > 0
        THEN LET doc == join_docs(t, acc.cur)
                 j == Popped(c, acc.cur, acc.total, len)
                 kept == SubSeq(acc.cur, j + 1, Len(acc.cur))
             IN  [docs |-> acc.docs \o doc,
                  cur |-> Append(kept, d),
                  total |-> (IF kept = <<>> THEN 0
                             ELSE acc.total - (kept[1].lo - acc.cur[1].lo)) + len]
        ELSE [docs |-> acc.docs, cur |-> Append(acc.cur, d), total |-> acc.total + len]

\* _merge_splits, for d in splits (pieces a..b), halving the range.
RECURSIVE MergeLoop(_, _, _, _, _, _)
MergeLoop(t, c, splits, a, b, acc) ==
    IF a > b THEN acc
    ELSE IF a = b THEN MergeBody(t, c, splits[a], acc)
    ELSE LET left == MergeLoop(t, c, splits, a, (a + b) \div 2, acc)
         IN  IF left.total >= 0
             THEN MergeLoop(t, c, splits, (a + b) \div 2 + 1, b, left)
             ELSE left

\* _merge_splits(splits, separator="")
merge_splits(t, c, splits) ==
    LET r == MergeLoop(t, c, splits, 1, Len(splits),
                       [docs |-> <<>>, cur |-> <<>>, total |-> 0])
    IN  IF r.cur = <<>> THEN r.docs ELSE r.docs \o join_docs(t, r.cur)

\* _split_text: the separator to use, by its place in the list.
ChosenSeparator(t, seps, lo, hi) ==
    LET hits == {k \in 1..Len(seps) : seps[k] = <<>> \/ Found(t, seps[k], lo, hi)}
    IN  IF hits = {} THEN 0 ELSE CHOOSE k \in hits : \A m \in hits : k <= m

RECURSIVE split_text(_, _, _, _, _)
RECURSIVE SplitLoop(_, _, _, _, _, _, _)

\* _split_text, the loop body for the piece s.
SplitBody(t, c, s, acc, new_separators) ==
    IF PieceLen(s) < c.chunk_size
    THEN [good |-> Append(acc.good, s), final |-> acc.final]
    ELSE LET merged == IF acc.good # <<>> THEN merge_splits(t, c, acc.good) ELSE <<>>
             other == IF new_separators = <<>> THEN <<s>>
                      ELSE split_text(t, c, s.lo, s.hi, new_separators)
         IN  [good |-> <<>>, final |-> acc.final \o merged \o other]

\* _split_text, for s in splits (pieces a..b), halving the range.
SplitLoop(t, c, splits, a, b, acc, new_separators) ==
    IF a > b THEN acc
    ELSE IF a = b THEN SplitBody(t, c, splits[a], acc, new_separators)
    ELSE LET left == SplitLoop(t, c, splits, a, (a + b) \div 2, acc, new_separators)
         IN  IF Len(left.good) >= 0
             THEN SplitLoop(t, c, splits, (a + b) \div 2 + 1, b, left, new_separators)
             ELSE left

\* RecursiveCharacterTextSplitter._split_text(text[lo..hi], separators)
split_text(t, c, lo, hi, separators) ==
    LET k == ChosenSeparator(t, separators, lo, hi)
        separator == IF k = 0 THEN separators[Len(separators)] ELSE separators[k]
        new_separators == IF k = 0 \/ separators[k] = <<>> THEN <<>>
                          ELSE SubSeq(separators, k + 1, Len(separators))
        splits == split_text_with_regex(t, separator, lo, hi)
        r == SplitLoop(t, c, splits, 1, Len(splits), [good |-> <<>>, final |-> <<>>],
                       new_separators)
    IN  IF r.good # <<>> THEN r.final \o merge_splits(t, c, r.good) ELSE r.final

\* A splitter whose separator list lacks the final "".
split_text_into_chunks_no_hard_cut(t) ==
    split_text(t, [chunk_size |-> CHUNK_SIZE, chunk_overlap |-> CHUNK_OVERLAP],
               1, TextLen(t), SubSeq(Separators, 1, Len(Separators) - 1))

\* index_docs.py 104-122
split_text_into_chunks(t) ==
    split_text(t, [chunk_size |-> CHUNK_SIZE, chunk_overlap |-> CHUNK_OVERLAP],
               1, TextLen(t), Separators)

ChunkInit ==
    /\ text_in \in Texts
    /\ chunks_out = None

SplitTextIntoChunks ==
    /\ chunks_out = None
    /\ chunks_out' = Some(split_text_into_chunks(text_in))
    /\ UNCHANGED text_in
    /\ UNCHANGED <<askvars, ingestvars>>

ChunkIdle ==
    /\ text_in = [word_len |-> 1, words |-> 1, inner |-> Space, pars |-> 0,
                  outer |-> LineBreak, trailing |-> FALSE]
    /\ chunks_out = None

(***************************************************************************)
(* Specifications: one request to /ask; the ingestion script, run once and *)
(* run twice; one call of split_text_into_chunks.                          *)
(***************************************************************************)
AskIdle ==
    /\ pc = "idle"
    /\ request = [question |-> Question, user_data |-> None]
    /\ calls = <<>>
    /\ query_args = None
    /\ query_results = <<>>
    /\ context_documents = <<>>
    /\ context = <<>>
    /\ user_parts = <<>>
    /\ user_message = <<>>
    /\ raised = None
    /\ response = None

IngestIdle ==
    /\ ipc = "idle"
    /\ corpus = None
    /\ indexes = {}
    /\ create_calls = 0
    /\ index_calls = <<>>
    /\ all_chunks = <<>>
    /\ loop_i = 0
    /\ batch_chunks = <<>>
    /\ embeddings = <<>>
    /\ vectors_batch = <<>>
    /\ total_uploaded = 0
    /\ chunk_id_counter = 1
    /\ store = EmptyStore
    /\ store_before = EmptyStore
    /\ rerun = FALSE
    /\ log = <<>>
    /\ reported = None

Init == AskInit /\ IngestIdle /\ ChunkIdle

Spec == Init /\ [][AskNext]_vars

InitIngestion == IngestInit /\ AskIdle /\ ChunkIdle

IngestSpec == InitIngestion /\ [][IngestNext]_vars

\* One run of the script.  It is one sequential process whose provider calls
\* return or raise: while a step is possible it is taken.
FairRunSpec == InitIngestion /\ [][RunNext]_vars /\ WF_vars(RunNext)

InitChunker == ChunkInit /\ AskIdle /\ IngestIdle

ChunkSpec == InitChunker /\ [][SplitTextIntoChunks]_vars

(***************************************************************************)
(* Properties of POST /ask                                                 *)
(***************************************************************************)
Range(seq) == {seq[k] : k \in 1..Len(seq)}

Status == response[1].status

\* The embedding call and the store query both returned.
RetrievalSucceeded ==
    /\ pc \in {"extract", "compose", "chat", "done"}
    /\ "index.query" \in Range(calls)
    /\ raised # None => raised[1].origin \notin {"embedding", "store"}

\* Metadata that carries a 'text' or a 'content' entry.
HasPayload(m) ==
    /\ m.metadata # None
    /\ {"text", "content"} \cap DOMAIN m.metadata[1] # {}

PayloadText(m) ==
    IF "text" \in DOMAIN m.metadata[1]
    THEN m.metadata[1].text ELSE m.metadata[1].content

\* C1: when the embedding call and the store query succeed and the store
\* returns no match, or only matches without usable payload text (metadata
\* null, or without a 'text' or 'content' entry), the request ends with 404.
C1_NoPayloadIs404 ==
    (/\ pc = "done"
     /\ RetrievalSucceeded
     /\ \A k \in 1..Len(query_results) : ~HasPayload(query_results[k]))
    => Status = 404

ProviderFailed ==
    /\ pc = "done"
    /\ raised # None
    /\ raised[1].origin \in {"embedding", "store", "chat"}

\* C2 as stated: any failure of the embedding provider, of the store query or
\* of the chat provider, whatever the error carries, results in HTTP 500.
C2_ProviderFailureIs500 == ProviderFailed => Status = 500

\* C2, amended: such a failure results in an error response whose status is
\* the status_code the raised error carries, and 500 when it carries none;
\* no answer is returned.
C2_ProviderFailureStatus ==
    ProviderFailed =>
        /\ Status = (IF raised[1].status_code # None
                     THEN raised[1].status_code[1] ELSE 500)
        /\ Status # 200
        /\ "chat.completions.create" \in Range(calls) => raised[1].origin = "chat"

C2_Witness ==
    /\ ProviderFailed
    /\ raised[1].origin = "chat"
    /\ raised[1].status_code = Some(429)
    /\ Status = 429

\* C3: the chat provider is invoked only after the embedding call and the
\* store query succeeded and at least one payload text is in the context, and
\* a 200 answer is never returned for a request whose assembled context is
\* empty.
C3_NoUngroundedAnswer ==
    /\ "chat.completions.create" \in Range(calls) =>
          /\ SubSeq(calls, 1, 3) = <<"pc.Index", "embeddings.create", "index.query">>
          /\ RetrievalSucceeded
          /\ context_documents # <<>>
    /\ (response # None /\ Status = 200) => context # <<>>

ProfileFields ==
    {"age", "weight", "height", "gender", "activity_level", "goal",
     "dietary_preferences"}

NumPresent(u) == Cardinality({f \in ProfileFields : u[f] # None})

PromptBuilt == user_message # <<>>

\* C4: the rendered profile block has exactly one line per field that is
\* present (non-null) and none for an absent field; an absent profile
\* renders no profile block at all.
C4_OneLinePerPresentField ==
    PromptBuilt =>
        IF request.user_data = None
        THEN UserContext(user_parts) = <<>>
        ELSE Len(user_parts) = NumPresent(request.user_data[1])

\* The matches that carry payload, by their position in the store's answer.
PayloadPositions(ms) ==
    SelectSeq([k \in 1..Len(ms) |-> k], LAMBDA k : HasPayload(ms[k]))

ExtractionFinished ==
    \/ pc \in {"compose", "chat"}
    \/ pc = "done" /\ raised = None
    \/ pc = "done" /\ raised # None /\ raised[1].type \in {"HTTPException", "ValidationError"}
    \/ pc = "done" /\ raised # None /\ raised[1].origin = "chat"

\* C9: the store is queried with k=3 and the context is built from at most 3
\* payload texts in the order the store returned them (non-increasing score):
\* filtering never reorders or duplicates the remaining texts.
C9_ContextInStoreOrder ==
    /\ query_args # None => query_args[1].top_k = 3
    /\ ExtractionFinished =>
          LET pos == PayloadPositions(query_results)
          IN  /\ Len(context_documents) <= 3
              /\ Len(context_documents) = Len(pos)
              /\ \A k \in 1..Len(pos) :
                    context_documents[k] = PayloadText(query_results[pos[k]])
              /\ \A k, m \in 1..Len(pos) :
                    k < m => query_results[pos[k]].score >= query_results[pos[m]].score

C9_Witness ==
    /\ pc = "chat"
    /\ Len(query_results) = 3
    /\ HasPayload(query_results[1])
    /\ ~HasPayload(query_results[2])
    /\ HasPayload(query_results[3])
    /\ {"text", "content"} \subseteq DOMAIN query_results[1].metadata[1]
    /\ context_documents = <<PayloadText(query_results[1]), PayloadText(query_results[3])>>

(***************************************************************************)
(* Properties of the ingestion run                                         *)
(***************************************************************************)
Embeds(n) == {k \in 1..n : log[k].op = "embed"}

C5_Order ==
    /\ \A k \in 1..Len(log) :
          log[k].op = "embed" =>
             /\ log[k].batch = Cardinality(Embeds(k - 1)) + 1
             /\ k > 1 => \/ log[k - 1].op = "upsert"
                         \/ log[k - 1].op = "embed" /\ ~log[k - 1].ok
    /\ \A k \in 1..Len(log) :
          log[k].op = "upsert" =>
             /\ k > 1
             /\ log[k - 1] = [op |-> "embed", batch |-> log[k].batch, ok |-> TRUE]
    /\ ipc \in {"report", "done"} => Cardinality(Embeds(Len(log))) = TotalBatches
    /\ log # <<>> => ipc \notin {"exit0", "exit1"}

\* C5: every batch is attempted exactly once and in order, batch i finished
\* (embedded and upserted, or failed) before the embed of batch i+1, and no
\* failure of embedding or upsert stops the run: once the loop is entered the
\* run reaches the final report.
C5_BatchesInOrderToReport == [](C5_Order) /\ ((ipc = "embed") ~> (ipc = "report"))

C5_Witness ==
    /\ ipc = "done"
    /\ TotalBatches = 3
    /\ \E k \in 1..Len(log) : log[k].op = "embed" /\ ~log[k].ok /\ log[k].batch = 1
    /\ \E k \in 1..Len(log) : log[k].op = "upsert" /\ ~log[k].ok /\ log[k].batch = 2
    /\ \E k \in 1..Len(log) : log[k].op = "upsert" /\ log[k].ok /\ log[k].batch = 3

\* C6: after a second run over the same documents every id maps to the same
\* payload text as after the first run, whatever batches failed in either run.
C6_RerunKeepsIdTexts ==
    (rerun /\ ipc = "done") =>
        \A id \in DOMAIN store_before :
            /\ id \in DOMAIN store
            /\ store[id].metadata.text = store_before[id].metadata.text

\* C7: the id under which a chunk is upserted is determined by the chunk's
\* position in the run's chunk sequence alone, whatever happened to earlier
\* batches.
C7_IdIsPosition ==
    ipc = "upsert" =>
        \A j \in 1..Len(vectors_batch) : vectors_batch[j].id = MakeId(loop_i + j)

\* C8: records of a batch are upserted only when the provider returned
\* exactly one vector per text of the batch.
C8_AllOrNothing ==
    (/\ log # <<>>
     /\ log[Len(log)].op = "upsert"
     /\ log[Len(log)].ok
     /\ vectors_batch # <<>>)
    => Len(embeddings) = Len(batch_chunks)

\* The number of records in the upsert calls of log[1..n] that succeeded.
RECURSIVE RecordsUpserted(_)
RecordsUpserted(n) ==
    IF n = 0 THEN 0
    ELSE RecordsUpserted(n - 1)
         + (IF log[n].op = "upsert" /\ log[n].ok THEN log[n].records ELSE 0)

\* C11: at every point of a run total_uploaded is the number of records in
\* the upsert calls that succeeded so far, so it counts no chunk of a batch
\* that failed in embedding or upsert; it never exceeds the number of chunks
\* discovered; and the count of the final report is that value.
C11_CountsUploadedRecords ==
    /\ total_uploaded = RecordsUpserted(Len(log))
    /\ total_uploaded <= Len(all_chunks)
    /\ reported # None => reported = Some(total_uploaded)
    /\ ipc = "done" => reported # None

\* A run of three batches has reported: one batch failed in embedding, one
\* in upsert, one was uploaded, and the report counts only the last.
C11_Witness ==
    /\ ipc = "done"
    /\ reported = Some(total_uploaded)
    /\ total_uploaded > 0
    /\ total_uploaded < Len(all_chunks)
    /\ \E k \in 1..Len(log) : log[k].op = "embed" /\ ~log[k].ok
    /\ \E k \in 1..Len(log) : log[k].op = "upsert" /\ ~log[k].ok /\ log[k].records > 0

\* The indexes of the configured name.
IndexesNamed(ix) == {x \in ix : x.name = PINECONE_INDEX_NAME}

\* One call of ensure_index_exists: main() leaves its first statement.
C12_Call ==
    (ipc = "start" /\ ipc' # "start") =>
        /\ index_calls'[1].op = "list_indexes"
        /\ \A k \in 1..Len(index_calls') :
              index_calls'[k].op = "create_index" =>
                 /\ k = 2
                 /\ index_calls'[1].ok
                 /\ PINECONE_INDEX_NAME \notin index_calls'[1].names
                 /\ index_calls'[k].index =
                        [name |-> PINECONE_INDEX_NAME,
                         dimension |-> EMBEDDING_DIMENSION, metric |-> "cosine"]
        /\ create_calls' - create_calls =
              Cardinality({k \in 1..Len(index_calls') : index_calls'[k].op = "create_index"})
        /\ (index_calls'[1].ok /\ IndexesNamed(indexes) # {}) =>
              /\ Len(index_calls') = 1
              /\ indexes' = indexes
              /\ ipc' = "load"
        /\ ipc' = "load" =>
              /\ Cardinality(IndexesNamed(indexes')) = 1
              /\ indexes \subseteq indexes'

\* C12: ensure_index_exists issues create_index, with the configured name,
\* dimension and the cosine metric, only when the listing holds no index of
\* the configured name; when the index is listed it calls nothing more,
\* changes nothing and raises nothing; and every call that returns, the
\* first or a later one, leaves exactly one index of that name.
C12_EnsureIndexIdempotent == [][C12_Call]_vars

\* The second run of the script found the index that the first run created
\* next to another index, and went on without a second create_index.
C12_Witness ==
    /\ rerun
    /\ ipc = "load"
    /\ index_calls = <<[op |-> "list_indexes", ok |-> TRUE,
                        names |-> {"other", PINECONE_INDEX_NAME}]>>
    /\ create_calls = 1
    /\ indexes = {OtherIndex, OurIndex}

(***************************************************************************)
(* Properties of split_text_into_chunks, under ChunkSpec.                  *)
(***************************************************************************)

\* C10: whatever the text, split_text_into_chunks returns only chunks of at
\* most CHUNK_SIZE characters, and for the empty text it returns no chunk.
C10_ChunksWithinSize ==
    chunks_out # None =>
        /\ \A k \in 1..Len(chunks_out[1]) : PieceLen(chunks_out[1][k]) <= CHUNK_SIZE
        /\ TextLen(text_in) = 0 => chunks_out[1] = <<>>

\* A text with a word longer than CHUNK_SIZE has been split: the word was cut
\* into a chunk of exactly CHUNK_SIZE characters and the rest.
C10_Witness ==
    /\ chunks_out # None
    /\ text_in.word_len > CHUNK_SIZE
    /\ Len(chunks_out[1]) >= 2
    /\ \E k \in 1..Len(chunks_out[1]) : PieceLen(chunks_out[1][k]) = CHUNK_SIZE

====
